---- MODULE Spec2Model ----
(***************************************************************************)
(* Model of the LBS (Load Balancing System) engine of VisionArk:           *)
(*   src/app/backend/services/lbs_engine.py   LBSEngine                    *)
(*   src/app/backend/api/lbs.py               the host operations          *)
(*   src/app/backend/models/database.py       the tables                   *)
(*                                                                         *)
(* Dates are day ordinals: ordinal 0 is Monday 2024-01-01.  Floats (loads  *)
(* and the four config scalars) are fixed-point integers in thousandths.   *)
(* A nullable column holding NULL (Python None) is the integer None.       *)
(***************************************************************************)
EXTENDS Integers, Sequences, FiniteSets, TLC

(***************************************************************************)
(* Bounds of the model                                                     *)
(***************************************************************************)
\* number of task ids create_task may hand out
MaxTasks == 2
\* number of rows the task_exceptions table may hold
MaxExceptions == 2
\* date.today() for the host operations, as a day ordinal (2024-02-01)
Today == 31
\* the last day ordinal an expanded range may reach (2025-03-31)
MaxOrd == 455
\* number of host operations in one run
MaxOps == 3

(***************************************************************************)
(* Python values                                                           *)
(***************************************************************************)
None == -999

\* a % b with Python's sign convention (result has the sign of b), b /= 0
PyMod(a, b) == IF b > 0 THEN a % b ELSE -((-a) % (-b))

Min(a, b) == IF a < b THEN a ELSE b

Max(a, b) == IF a > b THEN a ELSE b

(***************************************************************************)
(* datetime.date / calendar.monthrange                                     *)
(***************************************************************************)
IsLeap(y) == (y % 4 = 0) /\ ((y % 100 # 0) \/ (y % 400 = 0))

\* calendar.monthrange(y, m)[1]
DaysInMonth(y, m) ==
    IF m = 2 THEN (IF IsLeap(y) THEN 29 ELSE 28)
    ELSE IF m \in {4, 6, 9, 11} THEN 30 ELSE 31

\* the number of days from 2024-01-01 to the first day of year y
RECURSIVE DaysBeforeYear(_)
DaysBeforeYear(y) ==
    IF y <= 2024 THEN 0
    ELSE DaysBeforeYear(y - 1) + (IF IsLeap(y - 1) THEN 366 ELSE 365)

\* the number of days from the first day of year y to the first day of its month m
RECURSIVE DaysBeforeMonth(_, _)
DaysBeforeMonth(y, m) ==
    IF m <= 1 THEN 0 ELSE DaysBeforeMonth(y, m - 1) + DaysInMonth(y, m - 1)

\* date.year, date.month and date.day of a day ordinal
YearOf(d) ==
    CHOOSE y \in 2024..2027 : DaysBeforeYear(y) <= d /\ d < DaysBeforeYear(y + 1)

MonthOf(d) ==
    LET y == YearOf(d)
        n == d - DaysBeforeYear(y)
    IN  CHOOSE m \in 1..12 :
            DaysBeforeMonth(y, m) <= n /\ n < DaysBeforeMonth(y, m) + DaysInMonth(y, m)

DayOf(d) ==
    LET y == YearOf(d)
    IN  d - DaysBeforeYear(y) - DaysBeforeMonth(y, MonthOf(d)) + 1

\* date.weekday(): 0 = Monday ... 6 = Sunday (2024-01-01 is a Monday)
Weekday(d) == d % 7

(***************************************************************************)
(* Enumerations of models/database.py                                      *)
(***************************************************************************)
ONCE == "ONCE"

WEEKLY == "WEEKLY"

EVERY_N_DAYS == "EVERY_N_DAYS"

MONTHLY_DAY == "MONTHLY_DAY"

MONTHLY_NTH_WEEKDAY == "MONTHLY_NTH_WEEKDAY"

SKIP == "SKIP"

OVERRIDE_LOAD == "OVERRIDE_LOAD"

FORCE_DO == "FORCE_DO"

(***************************************************************************)
(* Rule Matcher: LBSEngine._should_task_occur / _is_nth_weekday            *)
(***************************************************************************)
\* faulty variant: nth = -1 is compared with the occurrence number like any other nth
IsNthWeekdayNoLast(target_date, nth, weekday) ==
    LET target_weekday == (weekday - 1) % 7
        occurrence == ((DayOf(target_date) - 1) \div 7) + 1
    IN  Weekday(target_date) = target_weekday /\ occurrence = nth

IsNthWeekday(target_date, nth, weekday) ==
    LET target_weekday == (weekday - 1) % 7
        occurrence == ((DayOf(target_date) - 1) \div 7) + 1
    IN  IF Weekday(target_date) # target_weekday THEN FALSE
        ELSE IF nth = -1 THEN MonthOf(target_date + 7) # MonthOf(target_date)
        ELSE occurrence = nth

WeekdayFlags(task) ==
    <<task.mon, task.tue, task.wed, task.thu, task.fri, task.sat, task.sun>>

\* faulty variant: a ONCE task stays due on every date from its due_date on
OnceMatchesFromDue(task, target_date) ==
    task.due_date # None /\ target_date >= task.due_date

\* ONCE: target_date == task.due_date
OnceMatches(task, target_date) == target_date = task.due_date

\* faulty variant: the flags are read with Sunday as weekday 0
WeeklyMatchesSundayFirst(task, target_date) ==
    WeekdayFlags(task)[((Weekday(target_date) + 1) % 7) + 1]

\* WEEKLY: weekday_flags[target_date.weekday()]
WeeklyMatches(task, target_date) ==
    WeekdayFlags(task)[Weekday(target_date) + 1]

\* EVERY_N_DAYS: days_diff >= 0 and days_diff % interval_days == 0
EveryNDaysMatches(task, target_date) ==
    IF task.anchor_date = None \/ task.interval_days = None \/ task.interval_days = 0
    THEN FALSE
    ELSE LET days_diff == target_date - task.anchor_date
         IN  days_diff >= 0 /\ PyMod(days_diff, task.interval_days) = 0

\* faulty variant: month_day is not clipped to the length of the month
MonthlyDayMatchesNoClip(task, target_date) ==
    DayOf(target_date) = task.month_day

\* MONTHLY_DAY: target_date.day == min(month_day, last day of the month)
MonthlyDayMatches(task, target_date) ==
    IF task.month_day = None \/ task.month_day = 0 THEN FALSE
    ELSE LET last_day == DaysInMonth(YearOf(target_date), MonthOf(target_date))
             target_day == Min(task.month_day, last_day)
         IN  DayOf(target_date) = target_day

\* MONTHLY_NTH_WEEKDAY: _is_nth_weekday once both parameters are set
MonthlyNthWeekdayMatches(task, target_date) ==
    IF task.nth_in_month = None \/ task.nth_in_month = 0
       \/ task.weekday_mon1 = None \/ task.weekday_mon1 = 0
    THEN FALSE
    ELSE IsNthWeekday(target_date, task.nth_in_month, task.weekday_mon1)

\* faulty variant: a rule_type the dispatch does not know matches every date
RuleMatchesUnknownAlways(task, target_date) ==
    LET rule == task.rule_type
    IN  IF rule = ONCE THEN OnceMatches(task, target_date)
        ELSE IF rule = WEEKLY THEN WeeklyMatches(task, target_date)
        ELSE IF rule = EVERY_N_DAYS THEN EveryNDaysMatches(task, target_date)
        ELSE IF rule = MONTHLY_DAY THEN MonthlyDayMatches(task, target_date)
        ELSE IF rule = MONTHLY_NTH_WEEKDAY THEN MonthlyNthWeekdayMatches(task, target_date)
        ELSE TRUE

\* the dispatch on rule_type, after the period validation
RuleMatches(task, target_date) ==
    LET rule == task.rule_type
    IN  IF rule = ONCE THEN OnceMatches(task, target_date)
        ELSE IF rule = WEEKLY THEN WeeklyMatches(task, target_date)
        ELSE IF rule = EVERY_N_DAYS THEN EveryNDaysMatches(task, target_date)
        ELSE IF rule = MONTHLY_DAY THEN MonthlyDayMatches(task, target_date)
        ELSE IF rule = MONTHLY_NTH_WEEKDAY THEN MonthlyNthWeekdayMatches(task, target_date)
        ELSE FALSE

\* faulty variant: the rule is consulted without the period validation
ShouldTaskOccurNoWindow(task, target_date) == RuleMatches(task, target_date)

ShouldTaskOccur(task, target_date) ==
    IF task.start_date # None /\ target_date < task.start_date THEN FALSE
    ELSE IF task.end_date # None /\ target_date > task.end_date THEN FALSE
    ELSE RuleMatches(task, target_date)

(***************************************************************************)
(* The store: tasks, task_exceptions, lbs_daily_cache, system_config       *)
(***************************************************************************)
VARIABLES
    tasks,        \* table tasks: task_id -> row
    nextTask,     \* the next fresh task_id (ids are never reused)
    exceptions,   \* table task_exceptions, in rowid order
    cache,        \* table lbs_daily_cache: a bag of rows (row -> number of copies)
    config,       \* table system_config: key -> value
    last,         \* the last host operation: what it was called with, how it ended
    ops,          \* the number of host operations so far
    probe         \* the Rule Matcher's argument and result, when called on its own

vars == <<tasks, nextTask, exceptions, cache, config, last, ops, probe>>

TaskIds == 1..MaxTasks

\* the cache as a bag: rows with their multiplicities
EmptyCache == [r \in {} |-> 0]

Copies(c, r) == IF r \in DOMAIN c THEN c[r] ELSE 0

RECURSIVE SumCopies(_, _)
SumCopies(c, rows) ==
    IF rows = {} THEN 0
    ELSE LET r == CHOOSE x \in rows : TRUE
         IN  c[r] + SumCopies(c, rows \ {r})

RECURSIVE SumLoads(_, _)
SumLoads(c, rows) ==
    IF rows = {} THEN 0
    ELSE LET r == CHOOSE x \in rows : TRUE
         IN  c[r] * r.calculated_load + SumLoads(c, rows \ {r})

\* the rows of a date / of a (task, date) pair
RowsOn(c, d) == {r \in DOMAIN c : r.target_date = d}

RowsOf(c, t, d) == {r \in DOMAIN c : r.task_id = t /\ r.target_date = d}

CountOf(c, t, d) == SumCopies(c, RowsOf(c, t, d))

(***************************************************************************)
(* Exception Resolver: LBSEngine._get_exception                            *)
(***************************************************************************)
\* the value of `exception` when the query finds no row
NoException ==
    [task_id |-> 0, target_date |-> None, exception_type |-> "None",
     override_load_value |-> None]

MatchingExceptions(excs, task_id, target_date) ==
    {i \in 1..Len(excs) :
        excs[i].task_id = task_id /\ excs[i].target_date = target_date}

\* faulty variant: the query returns the newest matching row
GetExceptionNewest(excs, task_id, target_date) ==
    LET idx == MatchingExceptions(excs, task_id, target_date)
    IN  IF idx = {} THEN NoException
        ELSE excs[CHOOSE i \in idx : \A j \in idx : j <= i]

\* .first() of an unordered query on the table: the matching row of lowest rowid
GetException(excs, task_id, target_date) ==
    LET idx == MatchingExceptions(excs, task_id, target_date)
    IN  IF idx = {} THEN NoException
        ELSE excs[CHOOSE i \in idx : \A j \in idx : i <= j]

(***************************************************************************)
(* Load Calculator: calculate_daily_load / _get_warning_level              *)
(***************************************************************************)
\* task_count ** beta, in thousandths
Pow(n, beta) ==
    IF n = 0 THEN 0
    ELSE IF beta = 1200 THEN
        (IF n = 1 THEN 1000 ELSE IF n = 2 THEN 2297 ELSE IF n = 3 THEN 3737
         ELSE IF n = 4 THEN 5278 ELSE IF n = 5 THEN 6899 ELSE IF n = 6 THEN 8586
         ELSE IF n = 7 THEN 10330 ELSE IF n = 8 THEN 12126 ELSE 1500 * n)
    ELSE IF beta = 2000 THEN 1000 * n * n
    ELSE 1000 * n

\* round(x, 2) of a value in thousandths
Round2(x) == IF x >= 0 THEN ((x + 5) \div 10) * 10 ELSE -(((-x) + 5) \div 10) * 10

\* self.config.get(key, default)
ConfigGet(cfg, key, default) == IF key \in DOMAIN cfg THEN cfg[key] ELSE default

\* faulty variant: a load counts as critical only from the DANGER threshold on
GetWarningLevelFromDanger(adjusted_load, cap) ==
    IF adjusted_load >= 8000 /\ adjusted_load > cap THEN "CRITICAL"
    ELSE IF adjusted_load >= 8000 THEN "DANGER"
    ELSE IF adjusted_load >= 6000 THEN "WARNING"
    ELSE "SAFE"

GetWarningLevel(adjusted_load, cap) ==
    IF adjusted_load > cap THEN "CRITICAL"
    ELSE IF adjusted_load >= 8000 THEN "DANGER"
    ELSE IF adjusted_load >= 6000 THEN "WARNING"
    ELSE "SAFE"

\* faulty variant: the rows marked skipped are read as well
DailyEntriesWithSkipped(c, target_date) == RowsOn(c, target_date)

\* the cache rows calculate_daily_load reads
DailyEntries(c, target_date) ==
    {r \in RowsOn(c, target_date) : r.status # "skipped"}

\* .first().context of a task that is not in the table raises
DailyLoadRaises(c, ts, target_date) ==
    \E r \in DailyEntries(c, target_date) : r.task_id \notin DOMAIN ts

\* faulty variant: the level of a day without entries is looked up like any other
EmptyDayLoadByThreshold(cap) ==
    [base_load |-> 0, task_count |-> 0, unique_contexts |-> 0,
     adjusted_load |-> 0, level |-> GetWarningLevel(0, cap), cap |-> cap]

\* the result of calculate_daily_load when the query finds no entry
EmptyDayLoad(cap) ==
    [base_load |-> 0, task_count |-> 0, unique_contexts |-> 0,
     adjusted_load |-> 0, level |-> "SAFE", cap |-> cap]

CalculateDailyLoad(c, ts, cfg, target_date) ==
    LET alpha == ConfigGet(cfg, "ALPHA", 100)
        beta == ConfigGet(cfg, "BETA", 1200)
        switch_cost == ConfigGet(cfg, "SWITCH_COST", 500)
        cap == ConfigGet(cfg, "CAP", 8000)
        cache_entries == DailyEntries(c, target_date)
    IN  IF cache_entries = {} THEN EmptyDayLoad(cap)
        ELSE
            LET base_load == SumLoads(c, cache_entries)
                task_count == SumCopies(c, cache_entries)
                unique_contexts ==
                    Cardinality({ts[r.task_id].context : r \in cache_entries})
                count_penalty == (alpha * Pow(task_count, beta)) \div 1000
                context_penalty == switch_cost * Max(unique_contexts - 1, 0)
                adjusted_load == base_load + count_penalty + context_penalty
            IN  [base_load |-> Round2(base_load), task_count |-> task_count,
                 unique_contexts |-> unique_contexts,
                 adjusted_load |-> Round2(adjusted_load),
                 level |-> GetWarningLevel(adjusted_load, cap), cap |-> cap]

\* the "tasks" breakdown of calculate_daily_load: one entry per cache row read
DailyLoadTasks(c, ts, target_date) ==
    {[task_id |-> r.task_id, context |-> ts[r.task_id].context,
      load |-> r.calculated_load, status |-> r.status, copies |-> c[r]] :
        r \in DailyEntries(c, target_date)}

\* round(x, 1) of a value in thousandths
Round1(x) == IF x >= 0 THEN ((x + 50) \div 100) * 100 ELSE -(((-x) + 50) \div 100) * 100

RECURSIVE SumSeq(_)
SumSeq(sq) == IF sq = <<>> THEN 0 ELSE Head(sq) + SumSeq(Tail(sq))

\* faulty variant: the week is taken to end on start_date + 7
GetWeeklyStatsEightDays(c, ts, cfg, start_date) ==
    LET end_date == start_date + 7
        cap == ConfigGet(cfg, "CAP", 8000)
        daily_loads == [i \in 1..(end_date - start_date + 1) |->
                           CalculateDailyLoad(c, ts, cfg, start_date + i - 1).adjusted_load]
        over_days == Cardinality({i \in DOMAIN daily_loads : daily_loads[i] > cap})
        avg_load == SumSeq(daily_loads) \div Len(daily_loads)
        recovery_days == Cardinality({i \in DOMAIN daily_loads : daily_loads[i] < 4000})
        recovery_rate == (recovery_days * 100000) \div 7
    IN  [start_date |-> start_date, end_date |-> end_date,
         average_load |-> Round2(avg_load), over_days |-> over_days,
         recovery_days |-> recovery_days, recovery_rate |-> Round1(recovery_rate),
         daily_loads |-> daily_loads]

\* get_weekly_stats: the percentage is in thousandths of a percent
GetWeeklyStats(c, ts, cfg, start_date) ==
    LET end_date == start_date + 6
        cap == ConfigGet(cfg, "CAP", 8000)
        daily_loads == [i \in 1..(end_date - start_date + 1) |->
                           CalculateDailyLoad(c, ts, cfg, start_date + i - 1).adjusted_load]
        over_days == Cardinality({i \in DOMAIN daily_loads : daily_loads[i] > cap})
        avg_load == SumSeq(daily_loads) \div Len(daily_loads)
        recovery_days == Cardinality({i \in DOMAIN daily_loads : daily_loads[i] < 4000})
        recovery_rate == (recovery_days * 100000) \div 7
    IN  [start_date |-> start_date, end_date |-> end_date,
         average_load |-> Round2(avg_load), over_days |-> over_days,
         recovery_days |-> recovery_days, recovery_rate |-> Round1(recovery_rate),
         daily_loads |-> daily_loads]

(***************************************************************************)
(* Expansion Engine: expand_tasks / _update_overflow_flags                 *)
(***************************************************************************)
InRange(d, start_date, end_date) == start_date <= d /\ d <= end_date

\* faulty variant: the whole cache is cleared, whatever the range
ClearRangeAll(c, start_date, end_date) == EmptyCache

\* faulty variant: nothing is cleared before the rows are inserted
ClearRangeNone(c, start_date, end_date) == c

\* query(LBSDailyCache).filter(target_date >= start, target_date <= end).delete()
ClearRange(c, start_date, end_date) ==
    [r \in {x \in DOMAIN c : ~InRange(x.target_date, start_date, end_date)} |-> c[r]]

\* query(Task).filter(Task.active == True).all()
ActiveTasks(ts) == {t \in DOMAIN ts : ts[t].active}

\* the LBSDailyCache(...) of one (date, task) of the loop, or no row
NewRows(ts, excs, task_id, current_date) ==
    LET task == ts[task_id]
        exception == GetException(excs, task_id, current_date)
    IN  IF ~ShouldTaskOccur(task, current_date) THEN {}
        ELSE IF exception.exception_type = SKIP THEN {}
        ELSE {[target_date |-> current_date,
               task_id |-> task_id,
               calculated_load |->
                   IF exception.exception_type = OVERRIDE_LOAD
                   THEN exception.override_load_value
                   ELSE task.base_load_score,
               rule_type_snapshot |-> task.rule_type,
               status |-> "planned",
               is_overflow |-> FALSE]}

\* every row the loop of expand_tasks adds to the session
ExpandedRows(ts, excs, start_date, end_date) ==
    UNION {NewRows(ts, excs, t, d) : t \in ActiveTasks(ts), d \in start_date..end_date}

\* session.add of a set of distinct rows
AddRows(c, rows) ==
    [r \in (DOMAIN c) \cup rows |-> Copies(c, r) + (IF r \in rows THEN 1 ELSE 0)]

\* the rows of one date after update({"is_overflow": flag})
Stamp(r, flag) == [r EXCEPT !.is_overflow = flag]

\* _update_overflow_flags: every row of a date in the range gets the date's flag
UpdateOverflowFlags(c, ts, cfg, start_date, end_date) ==
    LET cap == ConfigGet(cfg, "CAP", 8000)
        dates == {r.target_date : r \in DOMAIN c} \cap (start_date..end_date)
        over == {d \in dates : CalculateDailyLoad(c, ts, cfg, d).adjusted_load > cap}
        flags == [d \in dates |-> d \in over]
        new(r) == IF r.target_date \in dates
                  THEN Stamp(r, flags[r.target_date]) ELSE r
        stamped == {new(x) : x \in DOMAIN c}
    IN  [r \in stamped |->
            SumCopies(c, {x \in RowsOf(c, r.task_id, r.target_date) : new(x) = r})]

\* expand_tasks, as one transaction scope of the caller's session: the result is
\* ok with the rebuilt cache, or the exception leaves the cache as it was (the
\* DELETE and the INSERTs are rolled back when the session is closed)
ExpandTasks(c, ts, excs, cfg, start_date, end_date) ==
    LET cleared == ClearRange(c, start_date, end_date)
        rows == ExpandedRows(ts, excs, start_date, end_date)
        inserted == AddRows(cleared, rows)
        \* calculated_load is NOT NULL: the flush of a row without a load raises
        raises == \E r \in rows : r.calculated_load = None
    IN  IF raises THEN [ok |-> FALSE, cache |-> c]
        ELSE [ok |-> TRUE,
              cache |-> UpdateOverflowFlags(inserted, ts, cfg, start_date, end_date)]

(***************************************************************************)
(* Host operations: src/app/backend/api/lbs.py                             *)
(***************************************************************************)
\* date.today() + timedelta(days=90)
HorizonDays == 90

\* the dates a manual expand may carry
RequestDates == {Today, Today + 7}

\* a TaskCreate body with every optional field left out
BlankCreate ==
    [context |-> "a", base_load_score |-> 5000, rule_type |-> ONCE, due_date |-> None,
     mon |-> FALSE, tue |-> FALSE, wed |-> FALSE, thu |-> FALSE, fri |-> FALSE,
     sat |-> FALSE, sun |-> FALSE, interval_days |-> None, anchor_date |-> None,
     start_date |-> None, end_date |-> None]

\* a WEEKLY body with the flag of one weekday (0 = Monday) set
WeeklyOn(wd) ==
    [BlankCreate EXCEPT !.rule_type = WEEKLY,
        !.mon = (wd = 0), !.tue = (wd = 1), !.wed = (wd = 2), !.thu = (wd = 3),
        !.fri = (wd = 4), !.sat = (wd = 5), !.sun = (wd = 6)]

\* the TaskCreate bodies of the model
CreateInputs ==
    {[BlankCreate EXCEPT !.due_date = Today],
     [WeeklyOn(Weekday(Today)) EXCEPT !.context = "b", !.start_date = Today - 7],
     [BlankCreate EXCEPT !.rule_type = EVERY_N_DAYS, !.interval_days = 2,
        !.anchor_date = Today - 2, !.end_date = Today + 2]}

\* the TaskUpdate bodies of the model: the fields that are not None
UpdateInputs ==
    {[due_date |-> Today + 1],
     [active |-> FALSE]}

\* the ExceptionCreate bodies of the model
ExceptionInputs ==
    [task_id : TaskIds, target_date : {Today},
     exception_type : {SKIP, FORCE_DO}, override_load_value : {None}]
    \cup
    [task_id : TaskIds, target_date : {Today},
     exception_type : {OVERRIDE_LOAD}, override_load_value : {None, 1000}]

\* Task(...) of create_task
NewTask(req) ==
    [context |-> req.context, base_load_score |-> req.base_load_score,
     rule_type |-> req.rule_type, due_date |-> req.due_date,
     mon |-> req.mon, tue |-> req.tue, wed |-> req.wed, thu |-> req.thu,
     fri |-> req.fri, sat |-> req.sat, sun |-> req.sun,
     interval_days |-> req.interval_days, anchor_date |-> req.anchor_date,
     month_day |-> None, nth_in_month |-> None, weekday_mon1 |-> None,
     start_date |-> req.start_date, end_date |-> req.end_date, active |-> TRUE]

\* the fields of TaskUpdate that update_task copies when they are not None
UpdatableFields ==
    {"context", "base_load_score", "active", "rule_type", "due_date",
     "mon", "tue", "wed", "thu", "fri", "sat", "sun",
     "interval_days", "anchor_date", "month_day", "start_date", "end_date"}

ApplyUpdate(task, upd) ==
    [f \in DOMAIN task |->
        IF f \in UpdatableFields /\ f \in DOMAIN upd THEN upd[f] ELSE task[f]]

\* expand_start / expand_end of create_task and update_task
ExpandStart(task) ==
    IF task.start_date # None THEN task.start_date
    ELSE IF task.due_date # None THEN task.due_date
    ELSE Today

ExpandEnd(task) ==
    IF task.end_date # None THEN task.end_date
    ELSE IF task.due_date # None THEN task.due_date
    ELSE Today + HorizonDays

\* faulty variant: the cache rows of a deleted task are left to the re-expansion
CascadeCacheNone(c, ids) == c

\* db.delete(task): the relationships cascade "all, delete-orphan"
CascadeExceptions(excs, ids) ==
    LET keep(x) == x.task_id \notin ids IN SelectSeq(excs, keep)

CascadeCache(c, ids) ==
    [r \in {x \in DOMAIN c : x.task_id \notin ids} |-> c[r]]

NoProbe == [called |-> FALSE]

Init ==
    /\ tasks = [t \in {} |-> 0]
    /\ nextTask = 1
    /\ exceptions = <<>>
    /\ cache = EmptyCache
    /\ config = [k \in {"ALPHA", "BETA", "CAP", "SWITCH_COST"} |->
                    IF k = "ALPHA" THEN 100 ELSE IF k = "BETA" THEN 1200
                    ELSE IF k = "CAP" THEN 8000 ELSE 500]
    /\ last = [op |-> "init", ids |-> {}, start |-> 0, end |-> 0, ok |-> TRUE,
               again |-> FALSE]
    /\ ops = 0
    /\ probe = NoProbe

\* LBSEngine(db).expand_tasks(start, end) at the end of a handler
Reexpand(op, task_ids, ts, excs, c, start_date, end_date) ==
    LET res == ExpandTasks(c, ts, excs, config, start_date, end_date)
    IN  /\ ops < MaxOps
        /\ ops' = ops + 1
        /\ cache' = res.cache
        /\ last' = [op |-> op, ids |-> task_ids, start |-> start_date,
                    end |-> end_date, ok |-> res.ok,
                    again |-> /\ op = "expand" /\ last.op = "expand"
                              /\ last.start = start_date /\ last.end = end_date]

CreateTask(req) ==
    /\ nextTask <= MaxTasks
    /\ LET new_task == NewTask(req)
           ts == tasks @@ (nextTask :> new_task)
       IN  /\ tasks' = ts
           /\ nextTask' = nextTask + 1
           /\ Reexpand("create_task", {nextTask}, ts, exceptions, cache,
                       ExpandStart(new_task), ExpandEnd(new_task))
    /\ UNCHANGED <<exceptions, config, probe>>

UpdateTask(task_id, upd) ==
    /\ task_id \in DOMAIN tasks
    /\ LET db_task == ApplyUpdate(tasks[task_id], upd)
           ts == [tasks EXCEPT ![task_id] = db_task]
       IN  /\ tasks' = ts
           /\ Reexpand("update_task", {task_id}, ts, exceptions, cache,
                       ExpandStart(db_task), ExpandEnd(db_task))
    /\ UNCHANGED <<nextTask, exceptions, config, probe>>

CreateException(exc) ==
    /\ Len(exceptions) < MaxExceptions
    /\ exc.task_id < nextTask
    /\ LET excs == Append(exceptions, exc)
       IN  /\ exceptions' = excs
           /\ Reexpand("create_exception", {exc.task_id}, tasks, excs, cache,
                       exc.target_date, exc.target_date)
    /\ UNCHANGED <<tasks, nextTask, config, probe>>

Expand(start_date, end_date) ==
    /\ Reexpand("expand", {}, tasks, exceptions, cache, start_date, end_date)
    /\ UNCHANGED <<tasks, nextTask, exceptions, config, probe>>

DeleteTask(task_id) ==
    /\ task_id \in DOMAIN tasks
    /\ LET ts == [t \in (DOMAIN tasks) \ {task_id} |-> tasks[t]]
           excs == CascadeExceptions(exceptions, {task_id})
       IN  /\ tasks' = ts
           /\ exceptions' = excs
           /\ Reexpand("delete_task", {task_id}, ts, excs,
                       CascadeCache(cache, {task_id}), Today, Today + HorizonDays)
    /\ UNCHANGED <<nextTask, config, probe>>

BulkDeleteTasks(task_ids) ==
    /\ LET found == task_ids \cap DOMAIN tasks
           ts == [t \in (DOMAIN tasks) \ found |-> tasks[t]]
           excs == CascadeExceptions(exceptions, found)
       IN  /\ tasks' = ts
           /\ exceptions' = excs
           /\ Reexpand("bulk_delete_tasks", found, ts, excs,
                       CascadeCache(cache, found), Today, Today + HorizonDays)
    /\ UNCHANGED <<nextTask, config, probe>>

BulkUpdateStatus(task_ids, active) ==
    /\ LET ts == [t \in DOMAIN tasks |->
                    IF t \in task_ids THEN [tasks[t] EXCEPT !.active = active]
                    ELSE tasks[t]]
       IN  /\ tasks' = ts
           /\ Reexpand("bulk_update_status", task_ids \cap DOMAIN tasks, ts, exceptions, cache,
                       Today, Today + HorizonDays)
    /\ UNCHANGED <<nextTask, exceptions, config, probe>>

Next ==
    \/ \E req \in CreateInputs : CreateTask(req)
    \/ \E t \in TaskIds, upd \in UpdateInputs : UpdateTask(t, upd)
    \/ \E exc \in ExceptionInputs : CreateException(exc)
    \/ \E s \in RequestDates, e \in RequestDates : Expand(s, e)
    \/ \E t \in TaskIds : DeleteTask(t)
    \/ \E ids \in SUBSET TaskIds : BulkDeleteTasks(ids)
    \/ \E ids \in SUBSET TaskIds, a \in BOOLEAN : BulkUpdateStatus(ids, a)

Spec == Init /\ [][Next]_vars

(***************************************************************************)
(* The Rule Matcher called on its own, on any row the tasks table can hold  *)
(***************************************************************************)
\* a tasks row with every rule parameter NULL
BlankTask == NewTask(BlankCreate)

\* 2024-01-31, 2024-02-01, 2024-02-02, 2024-02-08, 2024-02-29, 2024-03-01
ProbeDates == {30, 31, 32, 38, 59, 60}

ProbeRules ==
    {ONCE, WEEKLY, EVERY_N_DAYS, MONTHLY_DAY, MONTHLY_NTH_WEEKDAY, "YEARLY"}

\* the rows the Rule Matcher is called on
ProbeTasks ==
    {[BlankTask EXCEPT !.rule_type = rule, !.due_date = due, !.thu = thu, !.fri = thu,
        !.interval_days = n, !.anchor_date = IF n = None THEN None ELSE 30,
        !.month_day = md, !.nth_in_month = nth,
        !.weekday_mon1 = IF nth = None THEN None ELSE 4,
        !.start_date = sd, !.end_date = ed] :
        rule \in ProbeRules, due \in {None, 31, 60}, thu \in BOOLEAN,
        n \in {None, 1, -2}, md \in {None, 1, 31}, nth \in {None, 1, -1},
        sd \in {None, 31, 59}, ed \in {None, 31, 38}}

InitMatcher ==
    /\ tasks = [t \in {} |-> 0]
    /\ nextTask = 1
    /\ exceptions = <<>>
    /\ cache = EmptyCache
    /\ config = [k \in {"ALPHA", "BETA", "CAP", "SWITCH_COST"} |->
                    IF k = "ALPHA" THEN 100 ELSE IF k = "BETA" THEN 1200
                    ELSE IF k = "CAP" THEN 8000 ELSE 500]
    /\ last = [op |-> "init", ids |-> {}, start |-> 0, end |-> 0, ok |-> TRUE,
               again |-> FALSE]
    /\ ops = 0
    /\ probe \in [called : {FALSE}, task : ProbeTasks, target_date : ProbeDates,
                  result : {FALSE}]

\* self._should_task_occur(task, target_date)
CallShouldTaskOccur ==
    /\ ~probe.called
    /\ probe' = [probe EXCEPT !.called = TRUE,
                    !.result = ShouldTaskOccur(probe.task, probe.target_date)]
    /\ UNCHANGED <<tasks, nextTask, exceptions, cache, config, last, ops>>

NextMatcher == CallShouldTaskOccur

SpecMatcher == InitMatcher /\ [][NextMatcher]_vars

(***************************************************************************)
(* One expand_tasks over a seeded catalog (tasks added to the session       *)
(* directly, as demo.py does), no exception recorded                        *)
(***************************************************************************)
\* the last day of the calendar month that starts on day d
MonthEnd(d) == d + DaysInMonth(YearOf(d), MonthOf(d)) - 1

\* the calendar months lying whole inside the calendar table
MonthRanges ==
    {<<s, MonthEnd(s)>> : s \in {d \in 0..MaxOrd : DayOf(d) = 1 /\ MonthEnd(d) <= MaxOrd}}

\* 14 consecutive days, one window starting on each weekday
FortnightRanges == {<<s, s + 13>> : s \in (Today - 3)..(Today + 3)}

\* the ranges expand_tasks is called with
RuleRanges ==
    MonthRanges \cup FortnightRanges
        \cup {<<Today - 1, Today + 1>>, <<Today + 1, Today + 3>>}

\* a WEEKLY row with the flags of a set of weekdays (0 = Monday) set
WeeklyOnDays(wds) ==
    [BlankTask EXCEPT !.rule_type = WEEKLY,
        !.mon = (0 \in wds), !.tue = (1 \in wds), !.wed = (2 \in wds),
        !.thu = (3 \in wds), !.fri = (4 \in wds), !.sat = (5 \in wds),
        !.sun = (6 \in wds)]

\* rows with a complete rule
RuleTasks ==
    {[BlankTask EXCEPT !.due_date = Today, !.start_date = sd, !.end_date = ed] :
        sd \in {None, Today}, ed \in {None, Today}}
    \cup {WeeklyOnDays(wds) : wds \in SUBSET (0..6)}
    \cup {[BlankTask EXCEPT !.rule_type = EVERY_N_DAYS, !.interval_days = n,
              !.anchor_date = Today] : n \in {1, 3}}
    \cup {[BlankTask EXCEPT !.rule_type = MONTHLY_DAY, !.month_day = m] : m \in 1..31}
    \cup {[BlankTask EXCEPT !.rule_type = MONTHLY_NTH_WEEKDAY, !.nth_in_month = n,
              !.weekday_mon1 = w] : n \in {-1, 1, 2, 3, 4, 5}, w \in 1..7}

\* rows whose rule has a parameter missing or out of range, or an unknown rule_type
MalformedTasks ==
    {[BlankTask EXCEPT !.rule_type = rule, !.context = "b"] : rule \in ProbeRules}
    \cup {[BlankTask EXCEPT !.rule_type = "YEARLY", !.context = "b", !.due_date = Today,
              !.thu = TRUE, !.interval_days = 1, !.anchor_date = Today,
              !.month_day = 1, !.nth_in_month = 1, !.weekday_mon1 = 4]}
    \cup {[BlankTask EXCEPT !.rule_type = EVERY_N_DAYS, !.context = "b",
              !.interval_days = n, !.anchor_date = a] :
              n \in {None, 0, 2, -2}, a \in {None, Today}}
    \cup {[BlankTask EXCEPT !.rule_type = MONTHLY_DAY, !.context = "b",
              !.month_day = m] : m \in {0, -1, 32}}
    \cup {[BlankTask EXCEPT !.rule_type = MONTHLY_NTH_WEEKDAY, !.context = "b",
              !.nth_in_month = n, !.weekday_mon1 = w] :
              n \in {None, 0, 1, 6, -2}, w \in {None, 0, 4, 8}}

\* the catalogs: one row with a complete rule, or such a row next to a malformed one
RuleCatalogs ==
    {(1 :> t) : t \in RuleTasks}
    \cup {(1 :> [BlankTask EXCEPT !.due_date = Today]) @@ (2 :> b) : b \in MalformedTasks}
    \cup {(1 :> WeeklyOnDays({0, 2})) @@ (2 :> b) : b \in MalformedTasks}

InitRule ==
    /\ tasks \in RuleCatalogs
    /\ nextTask = 3
    /\ exceptions = <<>>
    /\ cache = EmptyCache
    /\ config = [k \in {"ALPHA", "BETA", "CAP", "SWITCH_COST"} |->
                    IF k = "ALPHA" THEN 100 ELSE IF k = "BETA" THEN 1200
                    ELSE IF k = "CAP" THEN 8000 ELSE 500]
    /\ last = [op |-> "init", ids |-> {}, start |-> 0, end |-> 0, ok |-> TRUE,
               again |-> FALSE]
    /\ ops = 0
    /\ probe = NoProbe

\* engine.expand_tasks(start, end) on the fresh catalog
ExpandCatalog(start_date, end_date) ==
    /\ last.op = "init"
    /\ Expand(start_date, end_date)

NextRule == \E rng \in RuleRanges : ExpandCatalog(rng[1], rng[2])

SpecRule == InitRule /\ [][NextRule]_vars

(***************************************************************************)
(* The Load Calculator called on its own, on any content the tables can     *)
(* hold: calculate_daily_load and get_weekly_stats                          *)
(***************************************************************************)
\* the Monday of the current week: today - timedelta(days=today.weekday())
WeekStart == Today - Weekday(Today)

\* the tasks the cache rows refer to: two of context "a", one of context "b"
LoadCatalog ==
    (1 :> BlankTask) @@ (2 :> BlankTask) @@ (3 :> [BlankTask EXCEPT !.context = "b"])

\* a cache row of a task on a date
CacheRow(target_date, task_id, load, status) ==
    [target_date |-> target_date, task_id |-> task_id, calculated_load |-> load,
     rule_type_snapshot |-> ONCE, status |-> status, is_overflow |-> FALSE]

\* what one date may hold: <<task_id, calculated_load, status>> of each of its rows
DayContents ==
    {{},
     {<<1, 3000, "planned">>},
     {<<1, 5000, "planned">>, <<2, 2774, "completed">>},
     {<<1, 5000, "planned">>, <<3, 2000, "planned">>},
     {<<1, 5000, "skipped">>, <<2, 6000, "planned">>},
     {<<1, 5000, "skipped">>},
     {<<1, 5000, "planned">>, <<2, 3000, "planned">>, <<3, 2000, "planned">>}}

\* the dates that hold rows
LoadDates == {WeekStart, WeekStart + 3, WeekStart + 7}

\* the cache with the given contents on each of the dates
CacheOf(contents) ==
    LET rows == {CacheRow(d, x[1], x[2], x[3]) : d \in LoadDates, x \in UNION DayContents}
        held == {r \in rows :
                    <<r.task_id, r.calculated_load, r.status>> \in contents[r.target_date]}
    IN  [r \in held |-> 1]

\* the values the system_config table may hold, parsed by float()
LoadConfigs ==
    {[k \in {"ALPHA", "BETA", "CAP", "SWITCH_COST"} |->
        IF k = "ALPHA" THEN 100 ELSE IF k = "BETA" THEN 1200
        ELSE IF k = "CAP" THEN cap ELSE 500] : cap \in {-1000, 5000, 8000, 12000}}
    \cup {[k \in {"ALPHA", "BETA", "CAP", "SWITCH_COST"} |->
        IF k = "ALPHA" THEN 200 ELSE IF k = "BETA" THEN 2000
        ELSE IF k = "CAP" THEN 8000 ELSE 1000]}

InitLoad ==
    /\ tasks = LoadCatalog
    /\ nextTask = 4
    /\ exceptions = <<>>
    /\ cache \in {CacheOf(contents) : contents \in [LoadDates -> DayContents]}
    /\ config \in LoadConfigs
    /\ last = [op |-> "init", ids |-> {}, start |-> 0, end |-> 0, ok |-> TRUE,
               again |-> FALSE]
    /\ ops = 0
    /\ probe = NoProbe

\* engine.calculate_daily_load(target_date)
CallCalculateDailyLoad(target_date) ==
    /\ ~probe.called
    /\ ~DailyLoadRaises(cache, tasks, target_date)
    /\ probe' = [called |-> TRUE, op |-> "daily_load", date |-> target_date,
                 result |-> CalculateDailyLoad(cache, tasks, config, target_date),
                 tasks |-> DailyLoadTasks(cache, tasks, target_date)]
    /\ UNCHANGED <<tasks, nextTask, exceptions, cache, config, last, ops>>

\* engine.get_weekly_stats(start_date)
CallGetWeeklyStats(start_date) ==
    /\ ~probe.called
    /\ \A d \in start_date..(start_date + 6) : ~DailyLoadRaises(cache, tasks, d)
    /\ probe' = [called |-> TRUE, op |-> "weekly_stats", date |-> start_date,
                 result |-> GetWeeklyStats(cache, tasks, config, start_date)]
    /\ UNCHANGED <<tasks, nextTask, exceptions, cache, config, last, ops>>

NextLoad ==
    \/ \E d \in WeekStart..(WeekStart + 7) : CallCalculateDailyLoad(d)
    \/ \E s \in {WeekStart, WeekStart + 1} : CallGetWeeklyStats(s)

SpecLoad == InitLoad /\ [][NextLoad]_vars

(***************************************************************************)
(* One expand_tasks over a catalog of two tasks due today, whatever their   *)
(* loads and contexts, the config and the rows an earlier expansion left    *)
(***************************************************************************)
\* two tasks occurring today: the first once, the second once or every day
StampCatalogs ==
    {(1 :> [BlankTask EXCEPT !.due_date = Today, !.base_load_score = l1])
        @@ (2 :> [BlankTask EXCEPT !.rule_type = rule, !.due_date = Today,
                     !.interval_days = 1, !.anchor_date = Today,
                     !.base_load_score = l2, !.context = ctx]) :
        l1 \in {3000, 5000}, l2 \in {2774, 3000, 6000}, ctx \in {"a", "b"},
        rule \in {ONCE, EVERY_N_DAYS}}

\* the cache before the expand: empty, or rows of an earlier expansion whose
\* status has been set since
StampCaches ==
    {EmptyCache,
     (CacheRow(Today, 1, 5000, "completed") :> 1)
        @@ (CacheRow(Today, 2, 3000, "skipped") :> 1)
        @@ (CacheRow(Today + 8, 1, 5000, "skipped") :> 1)}

\* the ranges expand_tasks is called with
StampRanges ==
    {<<Today, Today>>, <<Today - 1, Today + 1>>, <<WeekStart, WeekStart + 6>>}

InitStamp ==
    /\ tasks \in StampCatalogs
    /\ nextTask = 3
    /\ exceptions = <<>>
    /\ cache \in StampCaches
    /\ config \in LoadConfigs
    /\ last = [op |-> "init", ids |-> {}, start |-> 0, end |-> 0, ok |-> TRUE,
               again |-> FALSE]
    /\ ops = 0
    /\ probe = NoProbe

NextStamp == \E rng \in StampRanges : ExpandCatalog(rng[1], rng[2])

SpecStamp == InitStamp /\ [][NextStamp]_vars

(***************************************************************************)
(* Engine construction on any content of system_config: LBSEngine.__init__, *)
(* _load_config, then calculate_daily_load                                  *)
(***************************************************************************)
ConfigKeys == {"ALPHA", "BETA", "CAP", "SWITCH_COST"}

\* float(value) succeeds
Parses(value) == value \in {"0.1", "1.2", "8.0", "0.5", "10"}

\* float(value), in thousandths
FloatOf(value) ==
    IF value = "0.1" THEN 100 ELSE IF value = "1.2" THEN 1200
    ELSE IF value = "8.0" THEN 8000 ELSE IF value = "0.5" THEN 500
    ELSE 10000

\* the default of config.get for a key
ConfigDefault(key) ==
    IF key = "ALPHA" THEN 100 ELSE IF key = "BETA" THEN 1200
    ELSE IF key = "CAP" THEN 8000 ELSE 500

\* _load_config: {c.key: float(c.value) for c in configs}; float raises ValueError
LoadConfig(store) ==
    IF \E k \in DOMAIN store : ~Parses(store[k])
    THEN [ok |-> FALSE, config |-> [k \in {} |-> 0]]
    ELSE [ok |-> TRUE, config |-> [k \in DOMAIN store |-> FloatOf(store[k])]]

\* the contents of system_config: any keys, each with a value that parses or not
ConfigStores ==
    UNION {[keys -> {"8.0", "10", "", "eight"}] : keys \in SUBSET ConfigKeys}

\* the cache the load is computed on: two rows of two contexts today
ConfigCache ==
    (CacheRow(Today, 1, 5000, "planned") :> 1) @@ (CacheRow(Today, 3, 2000, "planned") :> 1)

InitConfig ==
    /\ tasks = LoadCatalog
    /\ nextTask = 4
    /\ exceptions = <<>>
    /\ cache = ConfigCache
    /\ config = [k \in {} |-> 0]
    /\ last = [op |-> "init", ids |-> {}, start |-> 0, end |-> 0, ok |-> TRUE,
               again |-> FALSE]
    /\ ops = 0
    /\ probe \in [called : {FALSE}, store : ConfigStores]

\* calculate_load: engine = LBSEngine(db); engine.calculate_daily_load(today)
ConstructAndCalculate ==
    /\ ~probe.called
    /\ LET loaded == LoadConfig(probe.store)
       IN  /\ config' = loaded.config
           /\ probe' = [called |-> TRUE, store |-> probe.store, ok |-> loaded.ok,
                        result |-> IF loaded.ok
                                   THEN CalculateDailyLoad(cache, tasks, loaded.config, Today)
                                   ELSE EmptyDayLoad(None)]
    /\ UNCHANGED <<tasks, nextTask, exceptions, cache, last, ops>>

NextConfig == ConstructAndCalculate

SpecConfig == InitConfig /\ [][NextConfig]_vars

(***************************************************************************)
(* One engine instance kept while system_config changes: hub_agent.py keeps *)
(* self.lbs_engine; probe.store is the table, config the instance's copy    *)
(***************************************************************************)
\* the rows init_database inserts
DefaultStore ==
    [k \in ConfigKeys |-> IF k = "ALPHA" THEN "0.1" ELSE IF k = "BETA" THEN "1.2"
                          ELSE IF k = "CAP" THEN "8.0" ELSE "0.5"]

\* the values a committed update may give to a key
UpdateValues ==
    [k \in {"CAP", "ALPHA"} |-> IF k = "CAP" THEN {"0.5", "8.0", "10"} ELSE {"0.1", "0.5"}]

\* faulty variant: a call reads the table again
EngineConfigReread(engine_config, store) == LoadConfig(store).config

\* self.config as a call of the instance reads it
EngineConfig(engine_config, store) == engine_config

EngineCatalogs ==
    {(1 :> [BlankTask EXCEPT !.due_date = Today, !.base_load_score = 5000])
        @@ (2 :> [BlankTask EXCEPT !.due_date = Today, !.base_load_score = l2]) :
        l2 \in {2000, 6000}}

InitEngine ==
    /\ tasks \in EngineCatalogs
    /\ nextTask = 3
    /\ exceptions = <<>>
    /\ cache = EmptyCache
    /\ config = LoadConfig(DefaultStore).config
    /\ last = [op |-> "init", ids |-> {}, start |-> 0, end |-> 0, ok |-> TRUE,
               again |-> FALSE]
    /\ ops = 0
    /\ probe = [called |-> FALSE, op |-> "construct", store |-> DefaultStore,
                built |-> DefaultStore, result |-> EmptyDayLoad(None)]

\* an update of one system_config row is committed
UpdateConfig(key, value) ==
    /\ probe.store[key] # value
    /\ probe' = [probe EXCEPT !.store = [@ EXCEPT ![key] = value], !.op = "update"]
    /\ UNCHANGED <<tasks, nextTask, exceptions, cache, config, last, ops>>

\* LBSEngine(db_session): a new instance replaces the kept one
ConstructEngine ==
    /\ config' = LoadConfig(probe.store).config
    /\ probe' = [probe EXCEPT !.built = probe.store, !.op = "construct"]
    /\ UNCHANGED <<tasks, nextTask, exceptions, cache, last, ops>>

\* the kept instance's expand_tasks(today, today)
EngineExpand ==
    /\ LET res == ExpandTasks(cache, tasks, exceptions,
                              EngineConfig(config, probe.store), Today, Today)
       IN  /\ cache' = res.cache
           /\ last' = [op |-> "expand", ids |-> {}, start |-> Today, end |-> Today,
                       ok |-> res.ok, again |-> FALSE]
    /\ probe' = [probe EXCEPT !.op = "expand"]
    /\ UNCHANGED <<tasks, nextTask, exceptions, config, ops>>

\* the kept instance's calculate_daily_load(today)
EngineDailyLoad ==
    /\ probe' = [probe EXCEPT !.called = TRUE, !.op = "daily_load",
                    !.result = CalculateDailyLoad(cache, tasks,
                                   EngineConfig(config, probe.store), Today)]
    /\ UNCHANGED <<tasks, nextTask, exceptions, cache, config, last, ops>>

\* the kept instance's get_weekly_stats(monday of this week)
EngineWeeklyStats ==
    /\ probe' = [probe EXCEPT !.called = TRUE, !.op = "weekly_stats",
                    !.result = GetWeeklyStats(cache, tasks,
                                   EngineConfig(config, probe.store), WeekStart)]
    /\ UNCHANGED <<tasks, nextTask, exceptions, cache, config, last, ops>>

NextEngine ==
    \/ \E key \in DOMAIN UpdateValues : \E value \in UpdateValues[key] :
          UpdateConfig(key, value)
    \/ ConstructEngine
    \/ EngineExpand
    \/ EngineDailyLoad
    \/ EngineWeeklyStats

SpecEngine == InitEngine /\ [][NextEngine]_vars

(***************************************************************************)
(* Concurrent requests: each handler thread has its own session (get_db)   *)
(* on the SQLite file of get_engine.  A session's first DELETE, INSERT or  *)
(* UPDATE opens a transaction and takes the database's single writer lock, *)
(* kept until the session commits or is closed; other sessions read the    *)
(* committed rows only.  probe holds the threads' positions and sessions.  *)
(***************************************************************************)
\* the threads: two POST /expand requests and one DELETE /tasks/2 request
Expanders == {"A", "B"}

Deleter == "D"

Procs == Expanders \cup {Deleter}

DeletedTask == 2

\* task 1 once today, task 2 every day from yesterday on: today is above CAP
ConcCatalog ==
    (1 :> [BlankTask EXCEPT !.due_date = Today, !.base_load_score = 5000])
        @@ (2 :> [BlankTask EXCEPT !.rule_type = EVERY_N_DAYS, !.interval_days = 1,
                     !.anchor_date = Today - 1, !.base_load_score = 6000])

ConcConfig == LoadConfig(DefaultStore).config

\* the ranges of the two expand requests
ConcRanges ==
    [A : {<<Today, Today>>, <<Today - 1, Today + 1>>},
     B : {<<Today, Today>>, <<Today, Today + 1>>},
     D : {<<Today, Today + HorizonDays>>}]

\* the cache before the requests: empty, or left by an earlier expand
ConcCaches ==
    {EmptyCache,
     ExpandTasks(EmptyCache, ConcCatalog, <<>>, ConcConfig, Today - 1, Today + 1).cache}

\* faulty variant: a write never waits for the writer lock
WriterLockFreeAlways(holder) == TRUE

\* a session may open a write transaction: no other session holds the lock
WriterLockFree(holder) == holder = "none"

\* the rows of c in the range, as the DELETE of line 32-35 removes them
RangeRows(c, start_date, end_date) ==
    [r \in {x \in DOMAIN c : InRange(x.target_date, start_date, end_date)} |-> c[r]]

\* the committed cache less the rows a session's DELETE removed
DeleteRows(c, removed) ==
    [r \in {x \in DOMAIN c : c[x] > Copies(removed, x)} |-> c[r] - Copies(removed, r)]

InitConc ==
    /\ tasks = ConcCatalog
    /\ nextTask = 3
    /\ exceptions = <<>>
    /\ cache \in ConcCaches
    /\ config = ConcConfig
    /\ last = [op |-> "init", ids |-> {}, start |-> 0, end |-> 0, ok |-> TRUE,
               again |-> FALSE]
    /\ ops = 0
    /\ \E rng \in ConcRanges :
          probe = [called |-> FALSE,
                   pc |-> [p \in Procs |-> IF p = Deleter THEN "init" ELSE "start"],
                   range |-> rng,
                   lock |-> "none",
                   removed |-> [p \in Procs |-> EmptyCache],
                   seen |-> [p \in Procs |-> ConcCatalog],
                   loaded |-> {},
                   rebuilt |-> {},
                   before |-> cache,
                   between |-> FALSE]

\* expand_tasks line 32-38: the DELETE opens the transaction, then the active
\* tasks are loaded
ExpandDelete(p) ==
    /\ probe.pc[p] = "start"
    /\ WriterLockFree(probe.lock)
    /\ probe' = [probe EXCEPT !.pc[p] = "deleted", !.lock = p,
                    !.removed[p] = RangeRows(cache, probe.range[p][1], probe.range[p][2]),
                    !.seen[p] = tasks]
    /\ UNCHANGED <<tasks, nextTask, exceptions, cache, config, last, ops>>

\* expand_tasks line 40-67: the rows are added and the session commits; the
\* rows are new rows (new ids) for a session that loaded the old ones before
ExpandCommit(p) ==
    /\ probe.pc[p] = "deleted"
    /\ cache' = AddRows(DeleteRows(cache, probe.removed[p]),
                        ExpandedRows(probe.seen[p], exceptions,
                                     probe.range[p][1], probe.range[p][2]))
    /\ probe' = [probe EXCEPT !.pc[p] = "committed",
                    !.lock = IF @ = p THEN "none" ELSE @,
                    !.removed[p] = EmptyCache,
                    !.rebuilt = @ \cup (probe.range[p][1]..probe.range[p][2]),
                    !.between = @ \/ \E q \in Procs \ {p} : probe.pc[q] = "committed"]
    /\ UNCHANGED <<tasks, nextTask, exceptions, config, last, ops>>

\* _update_overflow_flags line 148-164: the flags of the range are computed and
\* written, and the session commits; calculate_daily_load raises on a row whose
\* task is gone
ExpandStamp(p) ==
    /\ probe.pc[p] = "committed"
    /\ WriterLockFree(probe.lock)
    /\ LET start_date == probe.range[p][1]
           end_date == probe.range[p][2]
           raises == \E d \in start_date..end_date : DailyLoadRaises(cache, tasks, d)
       IN  IF raises
           THEN /\ probe' = [probe EXCEPT !.pc[p] = "failed"]
                /\ UNCHANGED cache
           ELSE /\ probe' = [probe EXCEPT !.pc[p] = "done"]
                /\ cache' = UpdateOverflowFlags(cache, tasks, config, start_date, end_date)
    /\ UNCHANGED <<tasks, nextTask, exceptions, config, last, ops>>

\* a statement of the expand raises (the store fails): the exception leaves
\* expand_tasks and the handler, get_db closes the session, which discards
\* what the session has not committed
StoreFailure(p) ==
    /\ p \in Expanders
    /\ probe.pc[p] \in {"start", "deleted", "committed"}
    /\ probe' = [probe EXCEPT !.pc[p] = "failed",
                    !.lock = IF @ = p THEN "none" ELSE @,
                    !.removed[p] = EmptyCache]
    /\ UNCHANGED <<tasks, nextTask, exceptions, cache, config, last, ops>>

\* delete_task line 677-682: the task is fetched and db.delete(task) loads its
\* exceptions and cache rows to cascade to them; probe.loaded is the dates of
\* the loaded cache rows
DeleteLoad ==
    /\ probe.pc[Deleter] = "init"
    /\ DeletedTask \in DOMAIN tasks
    /\ probe' = [probe EXCEPT !.pc[Deleter] = "loaded", !.rebuilt = {},
                    !.loaded = {r.target_date :
                                   r \in {x \in DOMAIN cache : x.task_id = DeletedTask}}]
    /\ UNCHANGED <<tasks, nextTask, exceptions, cache, config, last, ops>>

\* delete_task line 683: the flush deletes the loaded rows by id and the task,
\* and the session commits.  A row of the task on a date rebuilt since the load
\* is deleted only if the rebuild gave it the id of a loaded row (SQLite gives
\* a new row the largest id plus one, which may be a deleted row's id): either
\* outcome is possible where a row was loaded, none where no row was loaded.
DeleteFlush ==
    /\ probe.pc[Deleter] = "loaded"
    /\ WriterLockFree(probe.lock)
    /\ tasks' = [t \in (DOMAIN tasks) \ {DeletedTask} |-> tasks[t]]
    /\ exceptions' = CascadeExceptions(exceptions, {DeletedTask})
    /\ \E reused \in SUBSET (probe.rebuilt \cap probe.loaded) :
          cache' = [r \in {x \in DOMAIN cache :
                              \/ x.task_id # DeletedTask
                              \/ x.target_date \in probe.rebuilt \ reused}
                      |-> cache[r]]
    /\ probe' = [probe EXCEPT !.pc[Deleter] = "start"]
    /\ UNCHANGED <<nextTask, config, last, ops>>

NextConc ==
    \/ \E p \in Procs : ExpandDelete(p)
    \/ \E p \in Procs : ExpandCommit(p)
    \/ \E p \in Procs : ExpandStamp(p)
    \/ \E p \in Procs : StoreFailure(p)
    \/ DeleteLoad
    \/ DeleteFlush

SpecConc == InitConc /\ [][NextConc]_vars

(***************************************************************************)
(* Properties                                                              *)
(***************************************************************************)
HasRow(c, t, d) == RowsOf(c, t, d) # {}

\* the task occurs on the date as far as the catalog goes
Occurs(ts, t, d) == t \in DOMAIN ts /\ ts[t].active /\ ShouldTaskOccur(ts[t], d)

\* the exception table holds a row of the type for the pair
HasException(excs, type, t, d) ==
    \E i \in MatchingExceptions(excs, t, d) : excs[i].exception_type = type

\* the last operation was a host operation whose expansion ran to completion
Expanded == last.op # "init" /\ last.ok

\* C1: after an expand of [start, end] has completed, for every date of the range
\* and every task of the catalog a cache row exists iff the task is active, the
\* Rule Matcher accepts the date and the exception table holds no SKIP for the pair.
C1_RowIffMatchedAndNotSkipped ==
    Expanded =>
        \A t \in DOMAIN tasks : \A d \in last.start..last.end :
            HasRow(cache, t, d) <=>
                (Occurs(tasks, t, d) /\ ~HasException(exceptions, SKIP, t, d))

\* C2: the cache holds at most one row per (task_id, target_date).
C2_OneRowPerPair ==
    \A r \in DOMAIN cache : CountOf(cache, r.task_id, r.target_date) = 1

\* C2 witness: a range that already held rows has been expanded again by a host
\* operation and holds the rows of two tasks.
C2_Witness ==
    /\ Expanded /\ ops >= 3
    /\ \E d \in last.start..last.end :
          Cardinality({r.task_id : r \in RowsOn(cache, d)}) = 2

\* C3: an expand(start, end) that directly follows the same expand(start, end)
\* leaves the cache as the first one built it.
C3_ExpandIdempotent ==
    [][(last'.op = "expand" /\ last'.again) => cache' = cache]_vars

\* C3 witness: the same range, holding rows, has just been expanded twice in a row
C3_Witness ==
    /\ last.op = "expand" /\ last.again /\ last.ok
    /\ \E r \in DOMAIN cache : InRange(r.target_date, last.start, last.end)

\* the number of copies of a row changes
RowChanged(r) == Copies(cache', r) # Copies(cache, r)

\* C4: a manual expand(start, end) leaves every cache row outside [start, end] as
\* it was, and leaves the task catalog, the exception table and the config alone.
C4_ExpandFrame ==
    [][last'.op = "expand" =>
        /\ \A r \in (DOMAIN cache) \cup (DOMAIN cache') :
              RowChanged(r) => InRange(r.target_date, last'.start, last'.end)
        /\ tasks' = tasks /\ exceptions' = exceptions /\ config' = config]_vars

\* C4 witness: an expand has rebuilt a range holding rows while rows lie outside it
C4_Witness ==
    /\ last.op = "expand" /\ last.ok
    /\ \E r \in DOMAIN cache : InRange(r.target_date, last.start, last.end)
    /\ \E r \in DOMAIN cache : ~InRange(r.target_date, last.start, last.end)

\* C5: after update_task and its re-expansion, the cache holds no row of the task
\* on a date where the updated task does not occur, and holds a row on every date
\* of the re-expanded span where it occurs and is not skipped.
C5_UpdateLeavesNoStaleRow ==
    (last.op = "update_task" /\ last.ok) =>
        \A t \in last.ids :
            /\ \A r \in DOMAIN cache :
                  r.task_id = t => Occurs(tasks, t, r.target_date)
            /\ \A d \in last.start..last.end :
                  (/\ Occurs(tasks, t, d)
                   /\ GetException(exceptions, t, d).exception_type # SKIP)
                      => HasRow(cache, t, d)

\* C6: after delete_task or bulk_delete_tasks, the deleted tasks are gone and no
\* cache row and no exception row, on any date, carries one of their ids.
C6_DeleteRemovesAllRows ==
    last.op \in {"delete_task", "bulk_delete_tasks"} =>
        \A t \in last.ids :
            /\ t \notin DOMAIN tasks
            /\ \A r \in DOMAIN cache : r.task_id # t
            /\ \A i \in 1..Len(exceptions) : exceptions[i].task_id # t

\* C6 witness: a task has been deleted while the cache holds a row that lies before
\* today, outside the range the deletion re-expands
C6_Witness ==
    /\ last.op \in {"delete_task", "bulk_delete_tasks"} /\ last.ids # {}
    /\ \E r \in DOMAIN cache : r.target_date < Today

\* the exception table before create_exception added its row
WithoutNewest(excs) == SubSeq(excs, 1, Len(excs) - 1)

\* the rows of every other (task, date) pair, the day-level is_overflow flag aside
Others(c, t, d) ==
    {Stamp(r, FALSE) : r \in {x \in DOMAIN c : ~(x.task_id = t /\ x.target_date = d)}}

\* C7: once create_exception has recorded a SKIP for (task, D), a date the rule
\* matches, and has re-expanded D, no cache row exists for (task, D), and every
\* other row is what the expansion without that exception yields.
C7_SkipRemovesOnlyItsRow ==
    (last.op = "create_exception" /\ last.ok) =>
        LET exc == exceptions[Len(exceptions)]
            t == exc.task_id
            D == exc.target_date
            without == ExpandTasks(cache, tasks, WithoutNewest(exceptions), config, D, D)
        IN  (/\ exc.exception_type = SKIP
             /\ t \in DOMAIN tasks
             /\ ShouldTaskOccur(tasks[t], D))
            => /\ ~HasRow(cache, t, D)
               /\ Others(cache, t, D) = Others(without.cache, t, D)

\* C8: once create_exception has recorded an OVERRIDE_LOAD for (task, D), the only
\* exception of that pair, the row (task, D) exists exactly when the task occurs on
\* D, its calculated_load is the override_load_value (present or absent), and every
\* other row is what the expansion without that exception yields.
C8_OverrideChangesOnlyLoad ==
    last.op = "create_exception" =>
        LET exc == exceptions[Len(exceptions)]
            t == exc.task_id
            D == exc.target_date
            without == ExpandTasks(cache, tasks, WithoutNewest(exceptions), config, D, D)
        IN  (/\ exc.exception_type = OVERRIDE_LOAD
             /\ t \in DOMAIN tasks
             /\ Cardinality(MatchingExceptions(exceptions, t, D)) = 1)
            => /\ HasRow(cache, t, D) <=> Occurs(tasks, t, D)
               /\ \A r \in RowsOf(cache, t, D) :
                     r.calculated_load = exc.override_load_value
               /\ Others(cache, t, D) = Others(without.cache, t, D)

\* the exception table with every FORCE_DO row removed
WithoutForceDo(excs) ==
    LET keep(x) == x.exception_type # FORCE_DO IN SelectSeq(excs, keep)

\* C9: the outcome of an expand is the outcome of the same expand with every
\* FORCE_DO row removed from the exception table.
C9_ForceDoHasNoEffect ==
    Expanded =>
        ExpandTasks(cache, tasks, WithoutForceDo(exceptions), config,
                    last.start, last.end)
            = [ok |-> TRUE, cache |-> cache]

\* the date lies outside the validity window of the task
OutsideWindow(task, d) ==
    \/ (task.start_date # None /\ d < task.start_date)
    \/ (task.end_date # None /\ d > task.end_date)

\* C10: whatever the rule_type and the rule parameters, the Rule Matcher rejects a
\* date before start_date (if set) or after end_date (if set).
C10_WindowFirst ==
    (probe.called /\ OutsideWindow(probe.task, probe.target_date)) => ~probe.result

\* C10 witness: the matcher was called on a ONCE task whose due_date is the probed
\* date and lies after the end of its validity window
C10_Witness ==
    /\ probe.called
    /\ probe.task.rule_type = ONCE
    /\ probe.task.due_date = probe.target_date
    /\ probe.task.end_date # None /\ probe.task.end_date < probe.target_date
    /\ ~probe.result

\* the rows of a task inside the range of the last expand
RowsInRange(t) ==
    {r \in DOMAIN cache :
        r.task_id = t /\ InRange(r.target_date, last.start, last.end)}

\* C11: for an active ONCE task whose due_date D lies inside its validity window,
\* with no exception, an expand of a range containing D leaves exactly one row of
\* the task in the range, on D, with calculated_load = base_load_score; an expand
\* of a range not containing D leaves none.
C11_OnceExactlyOnDueDate ==
    (last.op = "expand" /\ last.ok) =>
        \A t \in DOMAIN tasks :
            (/\ tasks[t].rule_type = ONCE /\ tasks[t].active
             /\ tasks[t].due_date # None
             /\ ~OutsideWindow(tasks[t], tasks[t].due_date)
             /\ MatchingExceptions(exceptions, t, tasks[t].due_date) = {})
            => IF InRange(tasks[t].due_date, last.start, last.end)
               THEN /\ SumCopies(cache, RowsInRange(t)) = 1
                    /\ \A r \in RowsInRange(t) :
                          /\ r.target_date = tasks[t].due_date
                          /\ r.calculated_load = tasks[t].base_load_score
               ELSE RowsInRange(t) = {}

\* C11 witness: expand(D-1, D+1) has run on a catalog holding a ONCE task due on D
\* and has left its row
C11_Witness ==
    /\ last.op = "expand" /\ last.ok
    /\ \E t \in DOMAIN tasks :
          /\ tasks[t].rule_type = ONCE
          /\ last.start = tasks[t].due_date - 1 /\ last.end = tasks[t].due_date + 1
          /\ RowsInRange(t) # {}

\* the weekdays (0 = Monday ... 6 = Sunday) whose flag is set on the task
FlaggedWeekdays(task) ==
    {wd \in 0..6 : <<task.mon, task.tue, task.wed, task.thu, task.fri, task.sat,
                      task.sun>>[wd + 1]}

\* C12: for an active WEEKLY task with k weekday flags set, no validity bound and
\* no exception, an expand of 14 consecutive days leaves exactly 2*k rows of the
\* task, each on a weekday whose flag is set (mon = Monday ... sun = Sunday).
C12_WeeklyTwoPerFlag ==
    (last.op = "expand" /\ last.ok /\ last.end = last.start + 13) =>
        \A t \in DOMAIN tasks :
            (/\ tasks[t].rule_type = WEEKLY /\ tasks[t].active
             /\ tasks[t].start_date = None /\ tasks[t].end_date = None
             /\ \A i \in 1..Len(exceptions) : exceptions[i].task_id # t)
            => /\ SumCopies(cache, RowsInRange(t))
                    = 2 * Cardinality(FlaggedWeekdays(tasks[t]))
               /\ \A r \in RowsInRange(t) :
                     (r.target_date % 7) \in FlaggedWeekdays(tasks[t])

\* C12 witness: a 14-day window starting on a Thursday has been expanded for a task
\* flagged Monday and Wednesday, and holds 4 rows of it
C12_Witness ==
    /\ last.op = "expand" /\ last.ok /\ last.end = last.start + 13
    /\ last.start % 7 = 3
    /\ \E t \in DOMAIN tasks :
          /\ tasks[t].rule_type = WEEKLY
          /\ FlaggedWeekdays(tasks[t]) = {0, 2}
          /\ SumCopies(cache, RowsInRange(t)) = 4

\* C13: the Rule Matcher accepts a date for an EVERY_N_DAYS task exactly when the
\* date is inside the validity window, anchor_date is set, interval_days is set and
\* greater than 0, and the date is anchor_date + k * interval_days for some k >= 0;
\* with interval_days missing, zero or negative it accepts no date.
C13_EveryNDaysNeedsPositiveInterval ==
    (probe.called /\ probe.task.rule_type = EVERY_N_DAYS) =>
        (probe.result <=>
            /\ ~OutsideWindow(probe.task, probe.target_date)
            /\ probe.task.anchor_date # None
            /\ probe.task.interval_days # None /\ probe.task.interval_days > 0
            /\ probe.target_date >= probe.task.anchor_date
            /\ (probe.target_date - probe.task.anchor_date)
                    % probe.task.interval_days = 0)

\* the task has no validity bound and no exception row
Unbounded(t) ==
    /\ tasks[t].active
    /\ tasks[t].start_date = None /\ tasks[t].end_date = None
    /\ \A i \in 1..Len(exceptions) : exceptions[i].task_id # t

\* the last expand covered one whole calendar month
ExpandedMonth == last.op = "expand" /\ last.ok /\ <<last.start, last.end>> \in MonthRanges

\* C14: for a MONTHLY_DAY task with month_day = m in 1..31 and no validity bound, an
\* expand of a whole calendar month leaves exactly one row of the task, on day
\* min(m, number of days of the month) of that month.
C14_MonthlyDayClipped ==
    ExpandedMonth =>
        \A t \in DOMAIN tasks :
            (/\ tasks[t].rule_type = MONTHLY_DAY /\ Unbounded(t)
             /\ tasks[t].month_day \in 1..31)
            => /\ SumCopies(cache, RowsInRange(t)) = 1
               /\ \A r \in RowsInRange(t) :
                     r.target_date - last.start + 1
                        = (IF tasks[t].month_day <= last.end - last.start + 1
                           THEN tasks[t].month_day
                           ELSE last.end - last.start + 1)

\* C14 witness: a month of 29 days (February 2024) has been expanded for a task with
\* month_day = 31, and its row lies on the 29th
C14_Witness ==
    /\ ExpandedMonth /\ last.end - last.start + 1 = 29
    /\ \E t \in DOMAIN tasks :
          /\ tasks[t].rule_type = MONTHLY_DAY /\ tasks[t].month_day = 31
          /\ \E r \in RowsInRange(t) : r.target_date = last.end

\* the dates from the start of the expanded month up to d that fall on d's weekday
SameWeekdayUpTo(d) == {x \in last.start..d : x % 7 = d % 7}

\* C15: for a MONTHLY_NTH_WEEKDAY task with weekday_mon1 = w in 1..7 and no validity
\* bound, an expand of a whole calendar month leaves, with nth_in_month = -1,
\* exactly one row, on the last date of the month falling on weekday w; with
\* nth_in_month = n in 1..4, exactly one row, on the n-th date of the month falling
\* on weekday w; with nth_in_month = 5, at most one row.
C15_NthWeekdayOncePerMonth ==
    ExpandedMonth =>
        \A t \in DOMAIN tasks :
            (/\ tasks[t].rule_type = MONTHLY_NTH_WEEKDAY /\ Unbounded(t)
             /\ tasks[t].weekday_mon1 \in 1..7
             /\ tasks[t].nth_in_month \in {-1, 1, 2, 3, 4, 5})
            => LET n == tasks[t].nth_in_month
                   w == tasks[t].weekday_mon1
                   count == SumCopies(cache, RowsInRange(t))
               IN  /\ \A r \in RowsInRange(t) : r.target_date % 7 = w - 1
                   /\ n = -1 =>
                         /\ count = 1
                         /\ \A r \in RowsInRange(t) : r.target_date + 7 > last.end
                   /\ n \in 1..4 =>
                         /\ count = 1
                         /\ \A r \in RowsInRange(t) :
                               Cardinality(SameWeekdayUpTo(r.target_date)) = n
                   /\ n = 5 => count <= 1

\* C15 witness: a month has been expanded for the task "last Friday", and its row
\* lies on a Friday of the last seven days of the month
C15_Witness ==
    /\ ExpandedMonth
    /\ \E t \in DOMAIN tasks :
          /\ tasks[t].rule_type = MONTHLY_NTH_WEEKDAY
          /\ tasks[t].nth_in_month = -1 /\ tasks[t].weekday_mon1 = 5
          /\ \E r \in RowsInRange(t) :
                r.target_date % 7 = 4 /\ r.target_date + 7 > last.end

\* the rule of the task lacks a parameter it needs, or its rule_type is unknown
IncompleteRule(task) ==
    \/ task.rule_type \notin {ONCE, WEEKLY, EVERY_N_DAYS, MONTHLY_DAY, MONTHLY_NTH_WEEKDAY}
    \/ task.rule_type = ONCE /\ task.due_date = None
    \/ task.rule_type = EVERY_N_DAYS
          /\ (task.anchor_date = None \/ task.interval_days = None)
    \/ task.rule_type = MONTHLY_DAY /\ task.month_day = None
    \/ task.rule_type = MONTHLY_NTH_WEEKDAY
          /\ (task.nth_in_month = None \/ task.weekday_mon1 = None)

\* the rows of the range, the day-level is_overflow flag aside, that the expand of
\* a catalog holds for task t
RowsFor(c, t) ==
    {Stamp(r, FALSE) : r \in {x \in DOMAIN c :
        x.task_id = t /\ InRange(x.target_date, last.start, last.end)}}

\* C16: whatever the rule_type (unknown values included) and whichever rule
\* parameters are missing or out of range, the Rule Matcher returns a boolean on
\* every date and expand_tasks completes; a task with an incomplete rule occurs on
\* no date and gets no row; and the rows of every task are the rows the expand of
\* the catalog holding that task alone yields.
C16_MatcherTotal ==
    last.op = "expand" =>
        /\ last.ok
        /\ \A t \in DOMAIN tasks :
              /\ \A d \in last.start..last.end :
                    /\ ShouldTaskOccur(tasks[t], d) \in BOOLEAN
                    /\ IncompleteRule(tasks[t]) => ~ShouldTaskOccur(tasks[t], d)
              /\ IncompleteRule(tasks[t]) => RowsInRange(t) = {}
              /\ SumCopies(cache, RowsInRange(t)) = Cardinality(RowsInRange(t))
              /\ RowsFor(cache, t)
                    = RowsFor(ExpandTasks(EmptyCache, (t :> tasks[t]), exceptions,
                                          config, last.start, last.end).cache, t)

\* C16 witness: a range has been expanded for a catalog holding a task of an unknown
\* rule_type with every parameter set, which got no row, next to a task that got rows
C16_Witness ==
    /\ last.op = "expand" /\ last.ok
    /\ \E t \in DOMAIN tasks, u \in DOMAIN tasks :
          /\ tasks[t].rule_type = "YEARLY" /\ tasks[t].due_date # None
          /\ RowsInRange(t) = {}
          /\ RowsInRange(u) # {}

\* calculate_daily_load has been called on its own
LoadProbed == probe.called /\ probe.op = "daily_load"

\* the cache rows of a date whose status is not 'skipped'
Counted(d) == {r \in DOMAIN cache : r.target_date = d /\ r.status # "skipped"}

\* the terms of the load formula for a date, from the tables
FormulaBase(d) == SumLoads(cache, Counted(d))

FormulaCount(d) == SumCopies(cache, Counted(d))

FormulaContexts(d) == Cardinality({tasks[r.task_id].context : r \in Counted(d)})

FormulaCountPenalty(d) == (config["ALPHA"] * Pow(FormulaCount(d), config["BETA"])) \div 1000

FormulaAdjusted(d) ==
    FormulaBase(d) + FormulaCountPenalty(d)
        + config["SWITCH_COST"] * (IF FormulaContexts(d) > 1 THEN FormulaContexts(d) - 1 ELSE 0)

\* x is y rounded to two decimals (both in thousandths)
IsRounded2(x, y) == x % 10 = 0 /\ (x - y) \in -5..5

LevelRank(level) ==
    IF level = "SAFE" THEN 0 ELSE IF level = "WARNING" THEN 1
    ELSE IF level = "DANGER" THEN 2 ELSE 3

\* loads around the thresholds 6.0, 8.0 and cap, and across the range between them
LoadGrid(cap) ==
    {cap - 1, cap, cap + 1, 5999, 6000, 6001, 7999, 8000, 8001}
        \cup {500 * i : i \in -4..30}

\* C18: on a date with at least one row that is not skipped, the level is CRITICAL
\* iff the adjusted load of the formula is > CAP, else DANGER iff it is >= 8.0, else
\* WARNING iff it is >= 6.0, else SAFE; and for the CAP in force (below 6.0 or not)
\* the level of the larger of two loads is never lower in the order
\* SAFE < WARNING < DANGER < CRITICAL, every load above CAP being CRITICAL.
C18_LevelPrecedence ==
    (LoadProbed /\ probe.result.task_count > 0) =>
        LET adj == FormulaAdjusted(probe.date)
            cap == config["CAP"]
            level == probe.result.level
        IN  /\ level = "CRITICAL" <=> adj > cap
            /\ level = "DANGER" <=> (adj <= cap /\ adj >= 8000)
            /\ level = "WARNING" <=> (adj <= cap /\ adj < 8000 /\ adj >= 6000)
            /\ level = "SAFE" <=> (adj <= cap /\ adj < 6000)
            /\ \A x \in LoadGrid(cap) :
                  /\ x > cap => GetWarningLevel(x, cap) = "CRITICAL"
                  /\ \A y \in LoadGrid(cap) :
                        x <= y => LevelRank(GetWarningLevel(x, cap))
                                    <= LevelRank(GetWarningLevel(y, cap))

\* C18 witness: with a CAP below 6.0, daily_load was called on a date whose adjusted
\* load is above CAP and below 6.0, and returned CRITICAL
C18_Witness ==
    /\ LoadProbed /\ probe.result.task_count > 0
    /\ config["CAP"] < 6000
    /\ FormulaAdjusted(probe.date) > config["CAP"]
    /\ FormulaAdjusted(probe.date) < 6000
    /\ probe.result.level = "CRITICAL"

\* C19: on a date without a row that is not skipped, daily_load returns base_load
\* 0, task_count 0, unique_contexts 0, adjusted_load 0.0, an empty task list and the
\* level SAFE, whatever ALPHA, BETA, CAP (below 0 included) and SWITCH_COST are.
C19_EmptyDayIsSafe ==
    (LoadProbed /\ Counted(probe.date) = {}) =>
        /\ probe.result.base_load = 0
        /\ probe.result.task_count = 0
        /\ probe.result.unique_contexts = 0
        /\ probe.result.adjusted_load = 0
        /\ probe.tasks = {}
        /\ probe.result.level = "SAFE"

\* C19 witness: with a CAP below 0, daily_load was called on a date whose only row
\* is skipped
C19_Witness ==
    /\ LoadProbed
    /\ config["CAP"] < 0
    /\ RowsOn(cache, probe.date) # {}
    /\ Counted(probe.date) = {}
    /\ probe.result.level = "SAFE"

\* get_weekly_stats has been called on its own
WeekProbed == probe.called /\ probe.op = "weekly_stats"

\* the adjusted load daily_load returns for a date
ReturnedLoad(d) == CalculateDailyLoad(cache, tasks, config, d).adjusted_load

\* the dates of the probed week over which a condition on the returned load holds
OverDates == {d \in probe.date..(probe.date + 6) : ReturnedLoad(d) > config["CAP"]}

RecoveryDates == {d \in probe.date..(probe.date + 6) : ReturnedLoad(d) < 4000}

\* what C20 says of the days of the week: daily_load is evaluated for exactly the 7
\* dates week_start .. week_start+6, over_days is the number of them whose adjusted
\* load exceeds CAP, recovery_days the number whose adjusted load is < 4.0 (days
\* without occurrences included), and over_days is 0 when every day is below CAP
WeekCounts ==
    /\ Len(probe.result.daily_loads) = 7
    /\ \A i \in 1..7 : probe.result.daily_loads[i] = ReturnedLoad(probe.date + i - 1)
    /\ probe.result.end_date = probe.date + 6
    /\ probe.result.over_days = Cardinality(OverDates)
    /\ probe.result.recovery_days = Cardinality(RecoveryDates)
    /\ \A d \in probe.date..(probe.date + 6) :
          Counted(d) = {} => d \in RecoveryDates
    /\ (\A d \in probe.date..(probe.date + 6) : ReturnedLoad(d) < config["CAP"])
          => probe.result.over_days = 0

FreshExpand == last.op = "expand" /\ last.ok

\* C21: after expand(start, end) has completed, on every date of the range all
\* cache rows carry the same is_overflow, and it is true iff the adjusted load of
\* the load formula for that date is greater than CAP.
C21_OverflowIffFormulaAboveCap ==
    FreshExpand =>
        \A d \in last.start..last.end : \A r \in RowsOn(cache, d) :
            r.is_overflow <=> (FormulaAdjusted(d) > config["CAP"])

\* the value a key takes when its row is missing or does not parse, else its value
EffectiveConfig(store, key) ==
    IF key \in DOMAIN store /\ Parses(store[key]) THEN FloatOf(store[key])
    ELSE ConfigDefault(key)

\* C22: whichever of the keys ALPHA, BETA, CAP, SWITCH_COST are missing from
\* system_config or hold a value that does not parse, constructing an engine and
\* computing a load succeeds, and the load is the one computed with the default
\* (0.1, 1.2, 8.0, 0.5) for each such key.
C22_ConfigErrorsNeverFatal ==
    probe.called =>
        /\ probe.ok
        /\ probe.result =
              CalculateDailyLoad(cache, tasks,
                  [k \in ConfigKeys |-> EffectiveConfig(probe.store, k)], Today)

\* the configuration the kept engine instance read when it was constructed
BuiltConfig == LoadConfig(probe.built).config

\* C23: the configuration is read once at construction: an update committed
\* while the instance exists changes nothing for it, every later expand,
\* daily_load and weekly_stats of the instance uses the values read at its
\* construction (stamps and levels use the same CAP), and a newly constructed
\* engine uses the table as it is at that moment.
C23_ConfigReadOnceAtConstruction ==
    /\ config = BuiltConfig
    /\ probe.op = "construct" => probe.built = probe.store
    /\ probe.op = "daily_load" =>
          probe.result = CalculateDailyLoad(cache, tasks, BuiltConfig, Today)
    /\ probe.op = "weekly_stats" =>
          probe.result = GetWeeklyStats(cache, tasks, BuiltConfig, WeekStart)
    /\ probe.op = "expand" =>
          \A r \in RowsOn(cache, Today) :
              r.is_overflow <=>
                  (CalculateDailyLoad(cache, tasks, BuiltConfig, Today).adjusted_load
                      > BuiltConfig["CAP"])

\* a call of the kept instance after an update that would have changed its result
C23_Witness ==
    /\ probe.op = "daily_load"
    /\ probe.store # probe.built
    /\ probe.result.level = "DANGER"
    /\ CalculateDailyLoad(cache, tasks, LoadConfig(probe.store).config, Today).level
          = "CRITICAL"
    /\ \E r \in RowsOn(cache, Today) : ~r.is_overflow

\* no thread but p has taken a step
OnlyRan(p) ==
    \A q \in Procs \ {p} : probe.pc[q] = (IF q = Deleter THEN "init" ELSE "start")

\* C24: a store failure at any point of an expand propagates to the caller, and
\* once the caller's session is discarded the cache rows of [start, end] are the
\* rows before the expand call: no partly rebuilt or partly stamped range.
C24_FailedExpandLeavesRangeAsBefore ==
    \A p \in Expanders :
        (probe.pc[p] = "failed" /\ OnlyRan(p)) =>
            RangeRows(cache, probe.range[p][1], probe.range[p][2])
                = RangeRows(probe.before, probe.range[p][1], probe.range[p][2])

\* the dates both expand requests cover
Overlap ==
    Max(probe.range["A"][1], probe.range["B"][1])
        ..Min(probe.range["A"][2], probe.range["B"][2])

\* the rows a single expand of the overlap leaves on it
SequentialRows ==
    LET first == Max(probe.range["A"][1], probe.range["B"][1])
        final == Min(probe.range["A"][2], probe.range["B"][2])
    IN  RangeRows(ExpandTasks(EmptyCache, tasks, exceptions, config, first, final).cache,
                  first, final)

BothExpandsDone ==
    /\ probe.pc["A"] = "done"
    /\ probe.pc["B"] = "done"
    /\ probe.pc[Deleter] = "init"

\* C25: when two expand calls over overlapping ranges run concurrently, each as
\* delete, insert, commit, stamp, commit on a store that isolates transactions,
\* and no task or exception changes meanwhile, then once both have finished the
\* overlap holds at most one row per (task_id, date) and exactly the rows of a
\* single sequential expand.
C25_ConcurrentExpandsAsSequential ==
    BothExpandsDone =>
        /\ \A r \in DOMAIN cache : r.target_date \in Overlap => cache[r] = 1
        /\ \A d \in Overlap : \A t \in DOMAIN tasks : CountOf(cache, t, d) <= 1
        /\ RangeRows(cache, Max(probe.range["A"][1], probe.range["B"][1]),
                     Min(probe.range["A"][2], probe.range["B"][2])) = SequentialRows

\* two expands of different ranges have finished, one having committed its rows
\* between the two commits of the other, and the overlap holds rows
C25_Witness ==
    /\ BothExpandsDone
    /\ probe.between
    /\ probe.range["A"] # probe.range["B"]
    /\ \E r \in DOMAIN cache : r.target_date \in Overlap /\ r.is_overflow

\* C26: no reader ever finds a committed cache row on a date whose adjusted load
\* is greater than CAP while the row's is_overflow is false.
C26_RowsAndStampsVisibleTogether ==
    \A d \in {r.target_date : r \in DOMAIN cache} :
        (~DailyLoadRaises(cache, tasks, d) /\ FormulaAdjusted(d) > config["CAP"]) =>
            \A r \in RowsOn(cache, d) : r.is_overflow

\* C27: in every reachable state, interleavings of an expand with a delete_task
\* included, every cache row's task_id is the id of an existing task, so that
\* daily_load never fails on the context or name of a missing task.
C27_NoRowOfMissingTask ==
    /\ \A r \in DOMAIN cache : r.task_id \in DOMAIN tasks
    /\ \A d \in {r.target_date : r \in DOMAIN cache} : ~DailyLoadRaises(cache, tasks, d)

\* C28: when several exception rows exist for one (task_id, target_date), a SKIP
\* among them wins: once create_exception has recorded a SKIP for the pair and
\* re-expanded the date, the cache holds no row of the pair, whatever exceptions
\* of other types were recorded for it before.
C28_SkipWinsAmongDuplicates ==
    (last.op = "create_exception" /\ last.ok) =>
        LET exc == exceptions[Len(exceptions)]
        IN  (/\ exc.exception_type = SKIP
             /\ exc.task_id \in DOMAIN tasks
             /\ Cardinality(MatchingExceptions(exceptions, exc.task_id,
                                               exc.target_date)) > 1)
            => ~HasRow(cache, exc.task_id, exc.target_date)

\* C29: after expand(start, end) every cache row of the range has status
\* "planned", whatever status a row of the range had before, so daily_load counts
\* every row of a freshly expanded date.
C29_FreshRowsArePlanned ==
    FreshExpand =>
        \A d \in last.start..last.end :
            /\ \A r \in RowsOn(cache, d) : r.status = "planned"
            /\ CalculateDailyLoad(cache, tasks, config, d).task_count
                  = SumCopies(cache, RowsOn(cache, d))

\* a range that held a completed and a skipped row has been expanded and holds
\* two rows again; the skipped row outside the range is still there
C29_Witness ==
    /\ FreshExpand
    /\ Today \in last.start..last.end
    /\ Cardinality(RowsOn(cache, Today)) = 2
    /\ \E r \in RowsOn(cache, Today + 8) : r.status = "skipped"

\* C30: for every date with occurrences, right after an expand covering it, the
\* overload indicators agree: daily_load's level is CRITICAL iff its returned
\* adjusted_load is greater than CAP iff the rows of the date have is_overflow
\* iff weekly_stats counts the date as an over day.
C30_OverloadIndicatorsAgree ==
    FreshExpand =>
        \A d \in last.start..last.end :
            RowsOn(cache, d) # {} =>
                LET daily == CalculateDailyLoad(cache, tasks, config, d)
                    critical == daily.level = "CRITICAL"
                    above == daily.adjusted_load > daily.cap
                    stamped == \A r \in RowsOn(cache, d) : r.is_overflow
                    weekly == GetWeeklyStats(cache, tasks, config, d)
                    over_day == weekly.daily_loads[1] > daily.cap
                IN  /\ critical <=> above
                    /\ above <=> stamped
                    /\ stamped <=> over_day

====
